---- MODULE Spec2Model ----
(***************************************************************************)
(* Model of scribe: the transcript data model, speaker naming, renderers   *)
(* and the transcribe / course / batch command handlers.                   *)
(*                                                                         *)
(* Strings are sequences of one-character strings, so that formatting,    *)
(* joining and slicing are computed, not assumed.  Times are fixed-point: *)
(* a time is a natural number of ticks, Res ticks to the second.           *)
(***************************************************************************)
EXTENDS Integers, Sequences, FiniteSets, TLC

VARIABLES
    seconds,        \* format_timestamp: the argument, in ticks
    ts,             \* format_timestamp: the returned string
    action_items,   \* format_weekly_todo_markdown: the argument
    week,           \* format_weekly_todo_markdown: the week label
    todo,           \* format_weekly_todo_markdown: the returned string
    utt_heap,       \* heap of Utterance objects, addressed by index
    tr_heap,        \* heap of Transcript objects, addressed by index
    response,       \* the provider reply handed to _parse_response
    t,              \* reference to the transcript handed to naming (0: none)
    r,              \* reference to the transcript naming returned (0: none)
    names,          \* the name list handed to _assign_speaker_names
    via,            \* which naming function produced r
    prompts,        \* the prompts _prompt_speaker_names issued and their replies, in order
    text_out,       \* what format_transcript_text returned for r
    snap,           \* the heaps as they were when naming was called
    args,           \* command line of the running command
    pc,             \* position of the command handler
    exit_code,      \* process exit code (-1 while running)
    error,          \* what ended the command: "none", "Exit" or the exception raised
    fs,             \* file system: output dir, temp dirs, written files
    calls,          \* collaborators called so far, in order
    is_temp,        \* _run: whether audio_path lies in a temp dir of this run
    summary,        \* transcribe._run: <<>> for None, else <<Summary>>
    diff,           \* course._run: <<>> before the diff, else <<CourseDiff>>
    dir_files,      \* batch: the files of the directory argument, by name
    all_items       \* batch: the items collected from the sidecar files

tsVars     == <<seconds, ts>>
todoVars   == <<action_items, week, todo>>
heapVars   == <<utt_heap, tr_heap>>
namingVars == <<response, t, r, names, via, prompts, text_out, snap>>
batchVars  == <<dir_files, all_items>>
cliRest    == <<args, exit_code, error, fs, calls, is_temp, summary, diff, batchVars>>
cliVars    == <<pc, cliRest>>
vars       == <<tsVars, todoVars, heapVars, namingVars, cliVars>>

----------------------------------------------------------------------------
(* Bounds *)

Res         == 2      \* ticks per second
MaxSeconds  == 3700   \* format_timestamp is applied to every tick of 0..MaxSeconds s
MaxItems    == 2      \* longest list of action items
MaxUtts     == 2      \* most utterances in a provider reply
MaxSpeaker  == 2      \* largest speaker index the provider assigns

----------------------------------------------------------------------------
(* Strings *)

Digits == <<"0", "1", "2", "3", "4", "5", "6", "7", "8", "9">>

RECURSIVE Str(_)
\* str(n) / f"{n}" / f"{n:d}" of a non-negative int
Str(n) == IF n < 10 THEN <<Digits[n + 1]>>
          ELSE Str(n \div 10) \o <<Digits[(n % 10) + 1]>>

\* f"{n:02d}": decimal, zero-padded on the left to a width of at least 2
Fmt02d(n) == IF Len(Str(n)) < 2 THEN <<"0">> \o Str(n) ELSE Str(n)

RECURSIVE Join(_, _)
\* sep.join(lines)
Join(sep, lines) ==
    IF lines = <<>> THEN <<>>
    ELSE IF Len(lines) = 1 THEN lines[1]
    ELSE lines[1] \o sep \o Join(sep, Tail(lines))

----------------------------------------------------------------------------
(* utils.format_timestamp *)

\* format_timestamp with minutes = int(seconds // 60): the "% 3600" forgotten
format_timestamp_total_minutes(secs_ticks) ==
    LET hours   == secs_ticks \div (3600 * Res)
        minutes == secs_ticks \div (60 * Res)
        secs    == (secs_ticks % (60 * Res)) \div Res
    IN  IF hours > 0
        THEN Fmt02d(hours) \o <<":">> \o Fmt02d(minutes) \o <<":">> \o Fmt02d(secs)
        ELSE Fmt02d(minutes) \o <<":">> \o Fmt02d(secs)

\* int(seconds // 3600), int((seconds % 3600) // 60), int(seconds % 60)
format_timestamp(secs_ticks) ==
    LET hours   == secs_ticks \div (3600 * Res)
        minutes == (secs_ticks % (3600 * Res)) \div (60 * Res)
        secs    == (secs_ticks % (60 * Res)) \div Res
    IN  IF hours > 0
        THEN Fmt02d(hours) \o <<":">> \o Fmt02d(minutes) \o <<":">> \o Fmt02d(secs)
        ELSE Fmt02d(minutes) \o <<":">> \o Fmt02d(secs)

----------------------------------------------------------------------------
(* models.Utterance, models.Transcript: objects on a heap *)

\* f"Speaker {i}"
SpeakerLabel(i) == <<"S", "p", "e", "a", "k", "e", "r", " ">> \o Str(i)

Utterance(speaker, start, end, text) ==
    [speaker |-> speaker, speaker_name |-> <<>>, start |-> start,
     end |-> end, text |-> text]

Transcript(source_file, duration, speakers, utterances, raw_text) ==
    [source_file |-> source_file, duration |-> duration, speakers |-> speakers,
     utterances |-> utterances, raw_text |-> raw_text]

\* utt_copy = utt: no copy is made, the name is then set on the input's object
model_copy_alias(uh, ref) == [heap |-> uh, ref |-> ref]

\* Utterance.model_copy(): a new object holding the same field values
model_copy(uh, ref) == [heap |-> Append(uh, uh[ref]), ref |-> Len(uh) + 1]

\* dict.get(key, default)
DictGet(map, key, default) == IF key \in DOMAIN map THEN map[key] ELSE default

Min(S) == CHOOSE x \in S : \A y \in S : x <= y

RECURSIVE Sorted(_)
\* sorted(S) of a finite set of ints
Sorted(S) == IF S = {} THEN <<>> ELSE <<Min(S)>> \o Sorted(S \ {Min(S)})

----------------------------------------------------------------------------
(* DeepgramProvider._parse_response *)

_parse_response(uh, th, resp, source_file) ==
    LET n == Len(resp.utterances)
        \* the loop appends one Utterance per provider utterance, in reply order
        utterances == [k \in 1..n |->
            Utterance(resp.utterances[k].speaker, resp.utterances[k].start,
                      resp.utterances[k].end, resp.utterances[k].transcript)]
        speaker_set == {resp.utterances[k].speaker : k \in 1..n}
        order == Sorted(speaker_set)
        speakers == [k \in 1..Len(order) |-> SpeakerLabel(order[k])]
        refs == [k \in 1..n |-> Len(uh) + k]
    IN  [utt_heap |-> uh \o utterances,
         tr_heap  |-> Append(th, Transcript(source_file, resp.duration, speakers,
                                            refs, resp.transcript)),
         ref      |-> Len(th) + 1]

----------------------------------------------------------------------------
(* cli._assign_speaker_names, cli._prompt_speaker_names *)

RECURSIVE ApplyNames(_, _, _, _)
\* the "Apply names" loop shared by both naming functions:
\*   utt_copy = utt.model_copy(); utt_copy.speaker_name = name_map.get(...)
ApplyNames(uh, utterances, name_map, new_utterances) ==
    IF utterances = <<>> THEN [heap |-> uh, list |-> new_utterances]
    ELSE LET utt  == Head(utterances)
             c    == model_copy(uh, utt)
             sp   == uh[utt].speaker
             set  == [c.heap EXCEPT ![c.ref].speaker_name =
                         DictGet(name_map, sp, SpeakerLabel(sp))]
         IN  ApplyNames(set, Tail(utterances), name_map, Append(new_utterances, c.ref))

\* transcript.model_copy(update={"speakers": ..., "utterances": ...})
TranscriptCopyUpdate(th, ref, new_speakers, new_utterances) ==
    Append(th, [th[ref] EXCEPT !.speakers = new_speakers,
                               !.utterances = new_utterances])

\* the map built over range(len(names)) instead of range(len(transcript.speakers))
AssignNameMap_over_names(transcript, name_list) ==
    [i \in 0..(Len(name_list) - 1) |-> name_list[i + 1]]

\* name_map = {i: names[i] if i < len(names) else f"Speaker {i}"
\*             for i in range(len(transcript.speakers))}
AssignNameMap(transcript, name_list) ==
    [i \in 0..(Len(transcript.speakers) - 1) |->
        IF i < Len(name_list) THEN name_list[i + 1] ELSE SpeakerLabel(i)]

_assign_speaker_names(uh, th, ref, name_list) ==
    LET transcript   == th[ref]
        name_map     == AssignNameMap(transcript, name_list)
        order        == Sorted(DOMAIN name_map)
        new_speakers == [k \in 1..Len(order) |-> name_map[order[k]]]
        loop         == ApplyNames(uh, transcript.utterances, name_map, <<>>)
    IN  [utt_heap |-> loop.heap,
         tr_heap  |-> TranscriptCopyUpdate(th, ref, new_speakers, loop.list),
         ref      |-> Len(th) + 1]

SampleLen == 120


\* the ellipsis appended to every sample, truncated or not
Sample_always_ellipsis(text) ==
    SubSeq(text, 1, IF Len(text) < SampleLen THEN Len(text) ELSE SampleLen)
        \o <<".", ".", ".">>

\* utt.text[:120] + ("..." if len(utt.text) > 120 else "")
Sample(text) ==
    SubSeq(text, 1, IF Len(text) < SampleLen THEN Len(text) ELSE SampleLen)
        \o (IF Len(text) > SampleLen THEN <<".", ".", ".">> ELSE <<>>)

\* speaker_samples: the sample of the first utterance of each speaker index
SpeakerSamples(uh, utterances) ==
    LET spk(k) == uh[utterances[k]].speaker
        seen   == {spk(k) : k \in 1..Len(utterances)}
        first(i) == Min({k \in 1..Len(utterances) : spk(k) = i})
    IN  [i \in seen |-> Sample(uh[utterances[first(i)]].text)]

\* Prompt.ask(..., default=d): an empty reply yields the default
Ask(reply, default) == IF reply = <<>> THEN default ELSE reply

\* replies[i] is what the operator types when asked for speaker i
_prompt_speaker_names(uh, th, ref, replies) ==
    LET transcript == th[ref]
        speaker_samples == SpeakerSamples(uh, transcript.utterances)
        asked        == Sorted(DOMAIN speaker_samples)
        name_map     == [i \in DOMAIN speaker_samples |-> Ask(replies[i], SpeakerLabel(i))]
        order        == Sorted(DOMAIN name_map)
        new_speakers == [k \in 1..Len(order) |->
                            DictGet(name_map, order[k], SpeakerLabel(order[k]))]
        loop         == ApplyNames(uh, transcript.utterances, name_map, <<>>)
    IN  IF Len(transcript.speakers) <= 1
        THEN [utt_heap |-> uh, tr_heap |-> th, ref |-> ref, prompts |-> <<>>]
        ELSE [utt_heap |-> loop.heap,
              tr_heap  |-> TranscriptCopyUpdate(th, ref, new_speakers, loop.list),
              ref      |-> Len(th) + 1,
              prompts  |-> [k \in 1..Len(asked) |->
                              [idx |-> asked[k], sample |-> speaker_samples[asked[k]],
                               reply |-> replies[asked[k]]]]]

----------------------------------------------------------------------------
(* utils.format_transcript_text *)

\* name = utt.speaker_name or f"Speaker {utt.speaker}"
DisplayName(utt) ==
    IF utt.speaker_name # <<>> THEN utt.speaker_name ELSE SpeakerLabel(utt.speaker)

TextLine(utt) ==
    <<"[">> \o format_timestamp(utt.start) \o <<"]", " ">> \o DisplayName(utt)
        \o <<":", " ">> \o utt.text

\* every line ended by a newline instead of the lines joined by one
format_transcript_text_trailing(uh, th, ref) ==
    LET transcript == th[ref]
        lines == IF transcript.utterances # <<>>
                 THEN [k \in 1..Len(transcript.utterances) |->
                          TextLine(uh[transcript.utterances[k]]) \o <<"\n">>]
                 ELSE <<transcript.raw_text>>
    IN  Join(<<>>, lines)

format_transcript_text(uh, th, ref) ==
    LET transcript == th[ref]
        lines == IF transcript.utterances # <<>>
                 THEN [k \in 1..Len(transcript.utterances) |->
                          TextLine(uh[transcript.utterances[k]])]
                 ELSE <<transcript.raw_text>>
    IN  Join(<<"\n">>, lines)

----------------------------------------------------------------------------
(* models.ActionItem, utils.format_weekly_todo_markdown *)

ActionItem(description, source, priority) ==
    [description |-> description, source |-> source, priority |-> priority]

High   == <<"h", "i", "g", "h">>
Normal == <<"n", "o", "r", "m", "a", "l">>
Low    == <<"l", "o", "w">>

\* stands for the one character U+2014 of the title
EmDash == "--"

\* [a for a in items if a.priority == p]
WithPriority(items, p) ==
    LET Keep(a) == a.priority = p IN SelectSeq(items, Keep)

\* f"- [ ] {item.description}{src}"
TodoLine(item) ==
    LET src == IF item.source # <<>>
               THEN <<" ", "*", "(", "f", "r", "o", "m", " ">> \o item.source
                        \o <<")", "*">>
               ELSE <<>>
    IN  <<"-", " ", "[", " ", "]", " ">> \o item.description \o src

HighHeading == <<"#", "#", " ", "H", "i", "g", "h", " ",
                 "P", "r", "i", "o", "r", "i", "t", "y">>
TasksHeading == <<"#", "#", " ", "T", "a", "s", "k", "s">>
LowHeading == <<"#", "#", " ", "L", "o", "w", " ",
                "P", "r", "i", "o", "r", "i", "t", "y">>

\* if group: heading, one line per item, an empty line
TodoGroup(heading, group) ==
    IF group # <<>>
    THEN <<heading \o <<"\n">>>> \o [k \in 1..Len(group) |-> TodoLine(group[k])]
             \o << <<>> >>
    ELSE <<>>

format_weekly_todo_markdown(items, wk) ==
    LET base  == <<"#", " ", "W", "e", "e", "k", "l", "y", " ", "T", "o", "-", "D", "o">>
        title == IF wk # <<>>
                 THEN base \o <<" ", EmDash, " ", "W", "e", "e", "k", " ">> \o wk
                 ELSE base
        high   == WithPriority(items, High)
        normal == WithPriority(items, Normal)
        low    == WithPriority(items, Low)
        lines  == <<title \o <<"\n">>>>
                    \o TodoGroup(HighHeading, high)
                    \o TodoGroup(TasksHeading, normal)
                    \o TodoGroup(LowHeading, low)
    IN  Join(<<"\n">>, lines)

----------------------------------------------------------------------------
(* Inputs *)

Alice   == <<"A", "l", "i", "c", "e">>
Bob     == <<"B", "o", "b">>
Hello   == <<"H", "e", "l", "l", "o">>
HiThere == <<"H", "i", " ", "t", "h", "e", "r", "e">>

RECURSIVE SeqsUpTo(_, _)
\* all sequences over S of length 0..n
SeqsUpTo(S, n) ==
    IF n = 0 THEN {<<>>}
    ELSE LET shorter == SeqsUpTo(S, n - 1)
         IN  shorter \cup {Append(q, x) : q \in {p \in shorter : Len(p) = n - 1}, x \in S}

\* format_timestamp arguments: every tick up to MaxSeconds, and some long recordings
TsInputs ==
    0..(MaxSeconds * Res) \cup
    {s * Res + f : s \in {35999, 36000, 86399, 359999, 360000, 363661}, f \in 0..(Res - 1)}

Priorities == {High, Normal, Low,
               <<"u", "r", "g", "e", "n", "t">>, <<"H", "i", "g", "h">>}

TodoInputs ==
    SeqsUpTo({ActionItem(d, s, p) :
                 d \in {<<"r", "e", "a", "d">>, <<"q", "u", "i", "z">>},
                 s \in {<<>>, <<"w", "1">>},
                 p \in Priorities}, MaxItems)

Names == {Alice, Bob, <<>>}

\* [n.strip() for n in speakers.split(",")] of any --speakers value
NameLists == SeqsUpTo(Names, MaxSpeaker + 1)

\* what the operator types at each prompt; <<>> is a bare return
Replies == [0..MaxSpeaker -> Names]

\* an utterance one character longer than a prompt's sample
LongText == [k \in 1..(SampleLen + 1) |-> Digits[(k % 10) + 1]]

\* what is said, and when
Segments == {[start |-> 0, text |-> Hello], [start |-> 2 * Res, text |-> HiThere],
             [start |-> 4 * Res, text |-> LongText]}

ProviderUtts ==
    {[speaker |-> sp, start |-> g.start, end |-> g.start + 2 * Res,
      transcript |-> g.text] : sp \in 0..MaxSpeaker, g \in Segments}

RawText == Hello \o <<" ">> \o HiThere

\* provider replies: any utterances, in any order, with any speaker indices
Responses ==
    {[transcript |-> RawText, duration |-> 4 * Res, utterances |-> us] :
        us \in SeqsUpTo(ProviderUtts, MaxUtts)}

AudioPath == <<"a", ".", "m", "p", "3">>

----------------------------------------------------------------------------
(* State the other specifications leave alone *)

TsIdle     == seconds = 0 /\ ts = <<>>
TodoIdle   == action_items = <<>> /\ week = <<>> /\ todo = <<>>
HeapIdle   == utt_heap = <<>> /\ tr_heap = <<>>
NamingIdle == /\ response = <<>> /\ t = 0 /\ r = 0 /\ names = <<>> /\ via = "none"
              /\ prompts = <<>> /\ text_out = <<>> /\ snap = <<>>
CliIdle    == /\ args = <<>> /\ exit_code = -1 /\ error = "none" /\ fs = <<>>
              /\ calls = <<>> /\ is_temp = FALSE /\ summary = <<>> /\ diff = <<>>
              /\ dir_files = <<>> /\ all_items = <<>>

----------------------------------------------------------------------------
(* Specification SpecTs: format_timestamp applied to one argument *)

InitTs ==
    /\ seconds \in TsInputs /\ ts = <<>> /\ pc = "call"
    /\ TodoIdle /\ HeapIdle /\ NamingIdle /\ CliIdle

FormatTimestamp ==
    /\ pc = "call"
    /\ ts' = format_timestamp(seconds)
    /\ pc' = "returned"
    /\ UNCHANGED <<seconds, todoVars, heapVars, namingVars, cliRest>>

NextTs == FormatTimestamp

SpecTs == InitTs /\ [][NextTs]_vars

----------------------------------------------------------------------------
(* Specification SpecTodo: format_weekly_todo_markdown applied to one list *)

InitTodo ==
    /\ action_items \in TodoInputs /\ week \in {<<>>, <<"3">>} /\ todo = <<>>
    /\ pc = "call"
    /\ TsIdle /\ HeapIdle /\ NamingIdle /\ CliIdle

FormatWeeklyTodo ==
    /\ pc = "call"
    /\ todo' = format_weekly_todo_markdown(action_items, week)
    /\ pc' = "returned"
    /\ UNCHANGED <<action_items, week, tsVars, heapVars, namingVars,
                   cliRest>>

NextTodo == FormatWeeklyTodo

SpecTodo == InitTodo /\ [][NextTodo]_vars

----------------------------------------------------------------------------
(* Reading rendered strings back *)

IsDigit(c) == \E d \in 1..10 : Digits[d] = c
DigitVal(c) == (CHOOSE d \in 1..10 : Digits[d] = c) - 1
AllDigits(s) == \A k \in 1..Len(s) : IsDigit(s[k])

RECURSIVE Num(_)
\* the number a string of decimal digits denotes
Num(s) == IF s = <<>> THEN 0
          ELSE Num(SubSeq(s, 1, Len(s) - 1)) * 10 + DigitVal(s[Len(s)])

RECURSIVE Split(_, _)
\* s.split(sep) for a one-character separator
Split(s, sep) ==
    IF \A k \in 1..Len(s) : s[k] # sep THEN <<s>>
    ELSE LET k == Min({j \in 1..Len(s) : s[j] = sep})
         IN  <<SubSeq(s, 1, k - 1)>> \o Split(SubSeq(s, k + 1, Len(s)), sep)

RECURSIVE IsSubseq(_, _)
\* a is b with some elements left out, order kept
IsSubseq(a, b) ==
    \/ a = <<>>
    \/ /\ b # <<>>
       /\ IF Head(a) = Head(b) THEN IsSubseq(Tail(a), Tail(b))
          ELSE IsSubseq(a, Tail(b))

Range(s) == {s[k] : k \in 1..Len(s)}
Count(x, s) == Cardinality({k \in 1..Len(s) : s[k] = x})
StartsWith(s, prefix) ==
    Len(s) >= Len(prefix) /\ SubSeq(s, 1, Len(prefix)) = prefix

----------------------------------------------------------------------------
(* C5: format_timestamp *)

Unpadded(hh)   == Len(hh) >= 1 /\ hh[1] # "0"
ZeroPadded(hh) == Len(hh) = 2 \/ (Len(hh) > 2 /\ hh[1] # "0")

\* the shape of a timestamp of `whole` seconds; the hours field, when there is
\* one, is zero-padded to 2 digits (padded) or has no leading zero (~padded)
TsShape(out, whole, padded) ==
    LET n  == Len(out)
        mm == SubSeq(out, n - 4, n - 3)
        ss == SubSeq(out, n - 1, n)
        hh == SubSeq(out, 1, n - 6)
    IN  /\ n >= 5
        /\ out[n - 2] = ":"
        /\ AllDigits(mm) /\ AllDigits(ss) /\ Num(mm) < 60 /\ Num(ss) < 60
        /\ IF whole < 3600
           THEN n = 5 /\ Num(mm) * 60 + Num(ss) = whole
           ELSE /\ n >= 7 /\ out[n - 5] = ":"
                /\ AllDigits(hh)
                /\ IF padded THEN ZeroPadded(hh) ELSE Unpadded(hh)
                /\ Num(hh) * 3600 + Num(mm) * 60 + Num(ss) = whole

\* C5 as claimed: every non-negative number of seconds is truncated to whole
\* seconds and rendered MM:SS below one hour and H:MM:SS from one hour on, minutes
\* and seconds zero-padded to 2 digits and hours unpadded; 0 -> "00:00",
\* 59 -> "00:59", 60 -> "01:00", 3661 -> "1:01:01".
C5_HoursUnpadded ==
    pc = "returned" =>
        /\ TsShape(ts, seconds \div Res, FALSE)
        /\ seconds = 0 => ts = <<"0", "0", ":", "0", "0">>
        /\ seconds = 59 * Res => ts = <<"0", "0", ":", "5", "9">>
        /\ seconds = 60 * Res => ts = <<"0", "1", ":", "0", "0">>
        /\ seconds = 3661 * Res => ts = <<"1", ":", "0", "1", ":", "0", "1">>

\* C5 amended: as claimed, except that the hours are zero-padded to at least 2
\* digits (HH:MM:SS), so that 3661 -> "01:01:01".
C5_FormatTimestamp ==
    pc = "returned" =>
        /\ TsShape(ts, seconds \div Res, TRUE)
        /\ seconds = 0 => ts = <<"0", "0", ":", "0", "0">>
        /\ seconds = 59 * Res => ts = <<"0", "0", ":", "5", "9">>
        /\ seconds = 60 * Res => ts = <<"0", "1", ":", "0", "0">>
        /\ seconds = 3661 * Res => ts = <<"0", "1", ":", "0", "1", ":", "0", "1">>

\* a recording of one hour, one minute, one second and a fraction was formatted
C5_Witness ==
    /\ pc = "returned"
    /\ seconds = 3661 * Res + 1
    /\ ts = <<"0", "1", ":", "0", "1", ":", "0", "1">>

----------------------------------------------------------------------------
(* C7: format_weekly_todo_markdown *)

Headings == <<HighHeading, TasksHeading, LowHeading>>

\* the item lines between the k-th heading line of `lines` and the next heading
GroupAfter(lines, k) ==
    LET IsHead(l) == l \in Range(Headings)
        later == {j \in (k + 1)..Len(lines) : IsHead(lines[j])}
        stop  == IF later = {} THEN Len(lines) + 1 ELSE Min(later)
        IsItem(l) == StartsWith(l, <<"-", " ", "[", " ", "]", " ">>)
    IN  SelectSeq(SubSeq(lines, k + 1, stop - 1), IsItem)

TodoWellGrouped(items, out) ==
    LET lines    == Split(out, "\n")
        IsHead(l) == l \in Range(Headings)
        IsItem(l) == StartsWith(l, <<"-", " ", "[", " ", "]", " ">>)
        heads    == SelectSeq(lines, IsHead)
        outItems == SelectSeq(lines, IsItem)
        inLines  == [k \in 1..Len(items) |-> TodoLine(items[k])]
        headAt   == {k \in 1..Len(lines) : IsHead(lines[k])}
    IN  \* every input item is emitted exactly once
        /\ Len(outItems) = Len(inLines)
        /\ \A l \in Range(inLines) : Count(l, outItems) = Count(l, inLines)
        \* and inside a group, never before the first heading
        /\ \A k \in 1..Len(lines) :
              IsItem(lines[k]) => \E h \in headAt : h < k
        \* groups come in the fixed order, each at most once
        /\ IsSubseq(heads, Headings)
        /\ \A h \in Range(heads) : Count(h, heads) = 1
        \* a group keeps the input order and is never empty
        /\ \A k \in headAt :
              /\ GroupAfter(lines, k) # <<>>
              /\ IsSubseq(GroupAfter(lines, k), inLines)

\* C7 as claimed: for any list of ActionItems, whatever their priority strings,
\* every input item is emitted exactly once, in exactly one of the three groups,
\* the groups come in the order High Priority, Tasks, Low Priority, a group keeps
\* the input order of its items, and an empty group has no heading.
C7_EveryItemOnce ==
    pc = "returned" => TodoWellGrouped(action_items, todo)

\* the same, for lists whose priorities are all "high", "normal" or "low"
C7_KnownPriorities ==
    (pc = "returned" /\ \A k \in 1..Len(action_items) :
                           action_items[k].priority \in {High, Normal, Low})
        => TodoWellGrouped(action_items, todo)

----------------------------------------------------------------------------
(* Specification SpecNaming: a provider reply is parsed, the transcript is     *)
(* named by either naming function, and the result is rendered as plain text  *)

InitNaming ==
    /\ response \in Responses
    /\ utt_heap = <<>> /\ tr_heap = <<>>
    /\ t = 0 /\ r = 0 /\ names = <<>> /\ via = "none" /\ prompts = <<>>
    /\ text_out = <<>> /\ snap = <<>>
    /\ pc = "parse"
    /\ TsIdle /\ TodoIdle /\ CliIdle

ParseResponse ==
    /\ pc = "parse"
    /\ LET res == _parse_response(utt_heap, tr_heap, response, AudioPath)
       IN  /\ utt_heap' = res.utt_heap
           /\ tr_heap' = res.tr_heap
           /\ t' = res.ref
    /\ pc' = "name"
    /\ UNCHANGED <<response, r, names, via, prompts, text_out, snap,
                   tsVars, todoVars, cliRest>>

AssignSpeakerNames ==
    /\ pc = "name"
    /\ \E name_list \in NameLists :
          LET res == _assign_speaker_names(utt_heap, tr_heap, t, name_list)
          IN  /\ utt_heap' = res.utt_heap
              /\ tr_heap' = res.tr_heap
              /\ r' = res.ref
              /\ names' = name_list
    /\ via' = "assign"
    /\ snap' = [utt_heap |-> utt_heap, tr_heap |-> tr_heap]
    /\ pc' = "format"
    /\ UNCHANGED <<response, t, prompts, text_out,
                   tsVars, todoVars, cliRest>>

PromptSpeakerNames ==
    /\ pc = "name"
    /\ \E replies \in Replies :
          LET res == _prompt_speaker_names(utt_heap, tr_heap, t, replies)
          IN  /\ utt_heap' = res.utt_heap
              /\ tr_heap' = res.tr_heap
              /\ r' = res.ref
              /\ prompts' = res.prompts
    /\ via' = "prompt"
    /\ snap' = [utt_heap |-> utt_heap, tr_heap |-> tr_heap]
    /\ pc' = "format"
    /\ UNCHANGED <<response, t, names, text_out,
                   tsVars, todoVars, cliRest>>

FormatTranscriptText ==
    /\ pc = "format"
    /\ text_out' = format_transcript_text(utt_heap, tr_heap, r)
    /\ pc' = "done"
    /\ UNCHANGED <<heapVars, response, t, r, names, via, prompts, snap,
                   tsVars, todoVars, cliRest>>

NextNaming ==
    \/ ParseResponse
    \/ AssignSpeakerNames
    \/ PromptSpeakerNames
    \/ FormatTranscriptText

SpecNaming == InitNaming /\ [][NextNaming]_vars

\* the transcript handed to naming, the one it returned, and their utterances
T == tr_heap[t]
R == tr_heap[r]
TUtt(k) == utt_heap[T.utterances[k]]
RUtt(k) == utt_heap[R.utterances[k]]
Named == pc \in {"format", "done"}
Renamed == Named /\ r # t

----------------------------------------------------------------------------
(* C1: _assign_speaker_names builds speakers from the name list *)

\* C1: after _assign_speaker_names(t, names) the result's speakers has the length
\* of t.speakers, and speakers[i] is names[i] when i < len(names) and
\* "Speaker {i}" otherwise, whether names is shorter or longer than t.speakers
\* (the call is defined for every transcript and name list: no guard but pc).
C1_AssignedSpeakers ==
    (Named /\ via = "assign") =>
        /\ Len(R.speakers) = Len(T.speakers)
        /\ \A i \in 0..(Len(T.speakers) - 1) :
              R.speakers[i + 1] =
                  IF i < Len(names) THEN names[i + 1] ELSE SpeakerLabel(i)

\* a short name list was padded with a fallback label
C1_Witness ==
    /\ Named /\ via = "assign"
    /\ Len(names) = 1 /\ Len(T.speakers) = 2
    /\ R.speakers = <<Alice, SpeakerLabel(1)>>

----------------------------------------------------------------------------
(* C2: after naming, speaker_name is speakers[speaker] *)

NamesMatchSpeakers ==
    \A k \in 1..Len(R.utterances) :
        /\ RUtt(k).speaker < Len(R.speakers)
        /\ RUtt(k).speaker_name = R.speakers[RUtt(k).speaker + 1]

\* C2 as claimed: after either naming function has renamed a transcript the
\* provider produced, every utterance u has u.speaker < len(speakers) and
\* u.speaker_name = speakers[u.speaker], also when the speaker indices of the
\* utterances are not the contiguous range 0..n-1.
C2_NamesMatchSpeakers ==
    Renamed => NamesMatchSpeakers

\* the same, for replies whose speaker indices are exactly 0..n-1
C2_ContiguousSpeakers ==
    (Renamed /\ {TUtt(k).speaker : k \in 1..Len(T.utterances)}
                    = 0..(Len(T.speakers) - 1))
        => NamesMatchSpeakers

----------------------------------------------------------------------------
(* C3: the transcripts _parse_response builds *)

\* C3 as claimed: in every transcript _parse_response builds, speakers[u.speaker]
\* exists and is "Speaker {u.speaker}" for every utterance u, and the utterances
\* are in non-decreasing order of start, whatever utterances and non-negative
\* speaker indices the provider sent.
C3_ProducerInvariants ==
    pc = "name" =>
        /\ \A k \in 1..Len(T.utterances) :
              /\ TUtt(k).speaker < Len(T.speakers)
              /\ T.speakers[TUtt(k).speaker + 1] = SpeakerLabel(TUtt(k).speaker)
        /\ \A j, k \in 1..Len(T.utterances) :
              j < k => TUtt(j).start <= TUtt(k).start

----------------------------------------------------------------------------
(* C4: naming is copy-on-write *)

\* C4: once a naming function has returned, every Utterance and Transcript object
\* that existed when it was called (the input t among them) still holds the values
\* it held then, the result has as many utterances as t, in the same order, each
\* equal to t's but for speaker_name, and source_file, duration and raw_text are
\* those of t.
C4_CopyOnWrite ==
    Named =>
        /\ \A k \in 1..Len(snap.utt_heap) : utt_heap[k] = snap.utt_heap[k]
        /\ \A k \in 1..Len(snap.tr_heap) : tr_heap[k] = snap.tr_heap[k]
        /\ Len(R.utterances) = Len(T.utterances)
        /\ \A k \in 1..Len(T.utterances) :
              [RUtt(k) EXCEPT !.speaker_name = TUtt(k).speaker_name] = TUtt(k)
        /\ R.source_file = T.source_file
        /\ R.duration = T.duration
        /\ R.raw_text = T.raw_text

\* a renamed copy carries a name while the input's utterance still has none
C4_Witness ==
    /\ Renamed
    /\ Len(T.utterances) = 2
    /\ RUtt(1).speaker_name = Alice
    /\ TUtt(1).speaker_name = <<>>
    /\ R.utterances[1] # T.utterances[1]

----------------------------------------------------------------------------
(* C6: naming, then plain-text rendering *)

\* "[<format_timestamp(start)>] <name>: <text>"
ExpectedLine(utt, name) ==
    <<"[">> \o format_timestamp(utt.start) \o <<"]", " ">> \o name
        \o <<":", " ">> \o utt.text

\* "[00:00] Alice: Hello\n[00:02] Bob: Hi there"
ExampleText ==
    <<"[", "0", "0", ":", "0", "0", "]", " ", "A", "l", "i", "c", "e", ":", " ",
      "H", "e", "l", "l", "o", "\n",
      "[", "0", "0", ":", "0", "2", "]", " ", "B", "o", "b", ":", " ",
      "H", "i", " ", "t", "h", "e", "r", "e">>

IsExample ==
    /\ names = <<Alice, Bob>>
    /\ Len(T.utterances) = 2
    /\ TUtt(1) = Utterance(0, 0, 2 * Res, Hello)
    /\ TUtt(2) = Utterance(1, 2 * Res, 4 * Res, HiThere)

Rendered == pc = "done" /\ via = "assign" /\ T.utterances # <<>>

\* C6 as claimed: for a transcript with utterances, the plain-text rendering of
\* _assign_speaker_names(t, names) is one line per utterance, in order, joined by
\* single newlines with none trailing, each "[<timestamp>] <assigned name>: <text>";
\* the two-utterance example named Alice and Bob renders exactly as the example.
C6_AssignedNameShown ==
    Rendered =>
        /\ Split(text_out, "\n") =
              [k \in 1..Len(R.utterances) |->
                  ExpectedLine(RUtt(k), RUtt(k).speaker_name)]
        /\ IsExample => text_out = ExampleText

\* C6 amended: the same, except that an utterance whose assigned name is the empty
\* string is shown under "Speaker {speaker}".
C6_NamedTextRendering ==
    Rendered =>
        /\ Split(text_out, "\n") =
              [k \in 1..Len(R.utterances) |->
                  ExpectedLine(RUtt(k),
                      IF RUtt(k).speaker_name # <<>> THEN RUtt(k).speaker_name
                      ELSE SpeakerLabel(RUtt(k).speaker))]
        /\ IsExample => text_out = ExampleText

\* the example transcript, named Alice and Bob, was rendered
C6_Witness ==
    Rendered /\ IsExample /\ text_out = ExampleText

----------------------------------------------------------------------------
(* Paths and option strings *)

UpperLetters == <<"A", "B", "C", "D", "E", "F", "G", "H", "I", "J", "K", "L", "M",
          "N", "O", "P", "Q", "R", "S", "T", "U", "V", "W", "X", "Y", "Z">>
LowerLetters == <<"a", "b", "c", "d", "e", "f", "g", "h", "i", "j", "k", "l", "m",
          "n", "o", "p", "q", "r", "s", "t", "u", "v", "w", "x", "y", "z">>

\* str.lower()
lower(s) ==
    [k \in 1..Len(s) |->
        IF \E j \in 1..26 : UpperLetters[j] = s[k]
        THEN LowerLetters[CHOOSE j \in 1..26 : UpperLetters[j] = s[k]]
        ELSE s[k]]

RECURSIVE lstrip(_)
lstrip(s) == IF s # <<>> /\ Head(s) = " " THEN lstrip(Tail(s)) ELSE s

RECURSIVE rstrip(_)
rstrip(s) == IF s # <<>> /\ s[Len(s)] = " " THEN rstrip(SubSeq(s, 1, Len(s) - 1)) ELSE s

\* str.strip()
strip(s) == rstrip(lstrip(s))

\* index of the dot that starts the suffix of a file name, 0 when it has none
SuffixDot(name) ==
    LET dots == {k \in 2..(Len(name) - 1) : name[k] = "."}
    IN  IF dots = {} THEN 0 ELSE CHOOSE k \in dots : \A j \in dots : j <= k

\* Path(name).suffix and Path(name).stem
suffix(name) == IF SuffixDot(name) = 0 THEN <<>>
                ELSE SubSeq(name, SuffixDot(name), Len(name))
stem(name) == IF SuffixDot(name) = 0 THEN name
              ELSE SubSeq(name, 1, SuffixDot(name) - 1)

----------------------------------------------------------------------------
(* transcription.audio *)

VIDEO_EXTENSIONS == {<<".", "m", "p", "4">>, <<".", "m", "o", "v">>, <<".", "m", "k", "v">>, <<".", "w", "e", "b", "m">>, <<".", "a", "v", "i">>}
AUDIO_EXTENSIONS == {<<".", "m", "4", "a">>, <<".", "m", "p", "3">>, <<".", "w", "a", "v">>, <<".", "o", "g", "g">>, <<".", "f", "l", "a", "c">>,
                     <<".", "a", "a", "c">>, <<".", "w", "m", "a">>}

is_video_file(path) == lower(suffix(path)) \in VIDEO_EXTENSIONS
is_audio_file(path) == lower(suffix(path)) \in AUDIO_EXTENSIONS

\* the directory tempfile.mkdtemp(prefix="scribe_") makes in this run
TempDir == "scribe_tmp"

\* what the machine does to extract_audio
ExtractOutcomes == {"no_ffmpeg", "no_audio_stream", "ffmpeg_fails", "ok"}

\* extract_audio(video_path) under an outcome: the tools run, the temp dirs left
\* behind, and whether it returned a path (else it raised RuntimeError)
extract_audio(outcome) ==
    IF outcome = "no_ffmpeg"
    THEN [ran |-> <<>>, made |-> {}, returned |-> FALSE]
    ELSE IF outcome = "no_audio_stream"
    THEN [ran |-> <<"ffprobe">>, made |-> {}, returned |-> FALSE]
    ELSE IF outcome = "ffmpeg_fails"
    THEN [ran |-> <<"ffprobe", "ffmpeg">>, made |-> {TempDir}, returned |-> FALSE]
    ELSE [ran |-> <<"ffprobe", "ffmpeg">>, made |-> {TempDir}, returned |-> TRUE]

\* prepare_audio(file_path): (audio_path, is_temp), or the RuntimeError passed on
prepare_audio(file_path, outcome) ==
    IF is_video_file(file_path)
    THEN extract_audio(outcome) @@ [is_temp |-> TRUE]
    ELSE [ran |-> <<>>, made |-> {}, returned |-> TRUE, is_temp |-> FALSE]

\* shutil.rmtree(Path(audio_path).parent, ignore_errors=True), under "if is_temp"
RemoveTemp(fsv, temp) ==
    IF temp THEN [fsv EXCEPT !.tmp = @ \ {TempDir}] ELSE fsv

\* utils.ensure_output_dir
ensure_output_dir(fsv) == [fsv EXCEPT !.output_dir = TRUE]

\* Path.write_text
write_text(fsv, name, content) ==
    [fsv EXCEPT !.files = (name :> content) @@ @]

----------------------------------------------------------------------------
(* models.Summary, utils.format_transcript_markdown *)

Summary(title, body, key_points, items) ==
    [title |-> title, summary |-> body, key_points |-> key_points,
     action_items |-> items]

\* the names utils.py defines
UtilsNames == {"format_timestamp", "ensure_output_dir", "format_transcript_markdown",
               "format_transcript_text", "format_course_diff_markdown",
               "format_weekly_todo_markdown"}

\* the parameters of utils.format_transcript_markdown
MarkdownParams == {"transcript", "summary"}

\* "**[{ts}] {name}:** {utt.text}\n"
MarkdownLine(utt) ==
    <<"*", "*", "[">> \o format_timestamp(utt.start) \o <<"]", " ">> \o DisplayName(utt)
        \o <<":", "*", "*", " ">> \o utt.text \o <<"\n">>

SummaryLines(s) ==
    (IF s.title # <<>> THEN <<<<"#", "#", " ">> \o s.title \o <<"\n">>>> ELSE <<>>)
    \o (IF s.summary # <<>> THEN <<s.summary \o <<"\n">>>> ELSE <<>>)
    \o (IF s.key_points # <<>>
        THEN <<<<"#", "#", "#", " ", "K", "e", "y", " ", "P", "o", "i", "n", "t",
          "s", "\n">>>>
                 \o [k \in 1..Len(s.key_points) |-> <<"-", " ">> \o s.key_points[k]]
                 \o << <<>> >>
        ELSE <<>>)
    \o (IF s.action_items # <<>>
        THEN <<<<"#", "#", "#", " ", "A", "c", "t", "i", "o", "n", " ", "I", "t",
          "e", "m", "s", "\n">>>>
                 \o [k \in 1..Len(s.action_items) |-> <<"-", " ", "[", " ", "]", " ">> \o s.action_items[k]]
                 \o << <<>> >>
        ELSE <<>>)

format_transcript_markdown(uh, th, ref, summ) ==
    LET transcript == th[ref]
        head == <<<<"#", " ", "T", "r", "a", "n", "s", "c", "r", "i", "p", "t", ":", " ">> \o stem(transcript.source_file) \o <<"\n">>>>
            \o (IF transcript.duration > 0
                THEN <<<<"*", "*", "D", "u", "r", "a", "t", "i", "o", "n", ":", "*", "*", " ">> \o format_timestamp(transcript.duration)
                          \o <<"\n">>>>
                ELSE <<>>)
            \o (IF transcript.speakers # <<>>
                THEN <<<<"*", "*", "S", "p", "e", "a", "k", "e", "r", "s", ":", "*", "*", " ">> \o Join(<<",", " ">>, transcript.speakers)
                          \o <<"\n">>>>
                ELSE <<>>)
        body == IF transcript.utterances # <<>>
                THEN [k \in 1..Len(transcript.utterances) |->
                         MarkdownLine(uh[transcript.utterances[k]])]
                ELSE <<transcript.raw_text>>
        lines == head
            \o (IF summ # <<>> THEN SummaryLines(summ[1]) ELSE <<>>)
            \o <<<<"-", "-", "-", "\n">>, <<"#", "#", " ", "T", "r", "a", "n", "s", "c", "r", "i", "p", "t",
          "\n">>>>
            \o body
    IN  Join(<<"\n">>, lines)

\* transcript.model_dump(), with data["summary"] = summary.model_dump() if summary
model_dump(uh, th, ref, summ) ==
    [th[ref] EXCEPT !.utterances = [k \in 1..Len(@) |-> uh[@[k]]]] @@
    [summary |-> summ]

----------------------------------------------------------------------------
(* models.CourseDiff, utils.format_course_diff_markdown *)

CourseDiff(additions, omissions, items) ==
    [additions |-> additions, omissions |-> omissions, combined_text |-> <<>>,
     action_items |-> items]

format_course_diff_markdown(d, wk) ==
    LET title == IF wk # <<>>
                 THEN <<"#", " ", "C", "o", "u", "r", "s", "e", " ", "D", "i", "f", "f", " ">> \o <<EmDash>> \o <<" ", "W", "e", "e", "k", " ">> \o wk
                 ELSE <<"#", " ", "C", "o", "u", "r", "s", "e", " ", "D", "i", "f", "f">>
        Tag(item) == IF item.priority # Normal
                     THEN <<" ", "[">> \o item.priority \o <<"]">> ELSE <<>>
        lines == <<title \o <<"\n">>>>
            \o (IF d.additions # <<>>
                THEN <<<<"#", "#", " ", "I", "n", " ", "V", "i", "d", "e", "o", " ", "O",
          "n", "l", "y", " ", "(", "A", "d", "d", "i", "t", "i", "o", "n",
          "s", ")", "\n">>>>
                         \o [k \in 1..Len(d.additions) |-> <<"-", " ">> \o d.additions[k]]
                         \o << <<>> >>
                ELSE <<>>)
            \o (IF d.omissions # <<>>
                THEN <<<<"#", "#", " ", "I", "n", " ", "T", "e", "x", "t", " ", "O", "n",
          "l", "y", " ", "(", "O", "m", "i", "s", "s", "i", "o", "n", "s",
          ")", "\n">>>>
                         \o [k \in 1..Len(d.omissions) |-> <<"-", " ">> \o d.omissions[k]]
                         \o << <<>> >>
                ELSE <<>>)
            \o (IF d.action_items # <<>>
                THEN <<<<"#", "#", " ", "A", "c", "t", "i", "o", "n", " ", "I", "t", "e",
          "m", "s", "\n">>>>
                         \o [k \in 1..Len(d.action_items) |->
                                <<"-", " ", "[", " ", "]", " ">> \o d.action_items[k].description
                                    \o Tag(d.action_items[k])]
                         \o << <<>> >>
                ELSE <<>>)
    IN  Join(<<"\n">>, lines)

----------------------------------------------------------------------------
(* Command lines and collaborator replies *)

FileNames == {<<"t", ".", "m", "p", "3">>, <<"t", ".", "M", "P", "4">>, <<"t", ".", "t", "x", "t">>}

\* values of --speakers; the empty string is the default
SpeakersOptions == {<<>>, <<"A", "l", "i", "c", "e", ",", "B", "o", "b">>, <<"A", "l", "i", "c", "e", ",", " ">>}

TranscribeArgs ==
    [cmd : {"transcribe"}, file : FileNames, exists : BOOLEAN,
     format : {"markdown", "json", "text"}, raw_text : BOOLEAN,
     no_summary : BOOLEAN, no_diarize : BOOLEAN, speakers : SpeakersOptions,
     text_exists : {TRUE}, week : {<<>>}, output : {<<>>}]

CourseArgs ==
    [cmd : {"course"}, file : FileNames, exists : BOOLEAN,
     format : {"markdown"}, raw_text : {FALSE},
     no_summary : {FALSE}, no_diarize : {FALSE}, speakers : {<<>>},
     text_exists : BOOLEAN, week : {<<>>, <<"3">>}, output : {<<>>}]

\* provider replies in chronological order whose first speaker is speaker 0
CliResponses ==
    {resp \in Responses :
        \A k \in 1..Len(resp.utterances) :
            /\ resp.utterances[k].start = IF k = 1 THEN 0 ELSE 2 * Res
            /\ k = 1 => resp.utterances[k].speaker = 0}

Summaries ==
    {Summary(<<"S", "t", "a", "n", "d", "u", "p">>, <<"S", "h", "o", "r", "t", ".">>, <<<<"p", "l", "a", "n">>>>, <<<<"s", "h", "i", "p">>>>),
     Summary(<<>>, <<>>, <<>>, <<>>)}

CourseDiffs ==
    {CourseDiff(<<<<"d", "e", "m", "o">>>>, <<>>, <<ActionItem(<<"r", "e", "a", "d">>, <<>>, High)>>),
     CourseDiff(<<>>, <<>>, <<>>)}

NoFiles == [name \in {} |-> <<>>]

\* what a written file holds: text, or the value json.dumps serialised
TextFile(chars) == [text |-> chars, data |-> <<>>]
JsonFile(value) == [text |-> <<>>, data |-> <<value>>]


----------------------------------------------------------------------------
(* The batch command: its directory, the sidecar files, the reply *)

EndsWith(s, tail) ==
    Len(s) >= Len(tail) /\ SubSeq(s, Len(s) - Len(tail) + 1, Len(s)) = tail

\* the characters of the file names, in code point order
CharOrder == <<".">> \o Digits \o <<"_">> \o LowerLetters
CodePoint(c) == CHOOSE k \in 1..Len(CharOrder) : CharOrder[k] = c

RECURSIVE PathLess(_, _)
\* a < b of two paths of one directory: the order of their names as strings
PathLess(a, b) ==
    IF b = <<>> THEN FALSE
    ELSE IF a = <<>> THEN TRUE
    ELSE IF a[1] # b[1] THEN CodePoint(a[1]) < CodePoint(b[1])
    ELSE PathLess(Tail(a), Tail(b))

RECURSIVE SortedPaths(_)
\* sorted(paths)
SortedPaths(S) ==
    IF S = {} THEN <<>>
    ELSE LET least == CHOOSE a \in S : \A b \in S \ {a} : PathLess(a, b)
         IN  <<least>> \o SortedPaths(S \ {least})

\* directory.glob("*.json"): every JSON file, not only the sidecars
glob_json(listing) ==
    {name \in DOMAIN listing : EndsWith(name, <<".", "j", "s", "o", "n">>)}

\* directory.glob("*_actions.json")
glob_actions_json(listing) ==
    {name \in DOMAIN listing : EndsWith(name, <<"_", "a", "c", "t", "i", "o", "n", "s", ".", "j", "s", "o", "n">>)}

\* what a file of the directory holds: it cannot be read, or its text is not
\* JSON, or it is the JSON text of a list, of an object (its keys in order), or
\* of a number
Unreadable       == [kind |-> "unreadable", value |-> <<>>]
NotJson          == [kind |-> "not_json", value |-> <<>>]
JsonNumber       == [kind |-> "number", value |-> <<>>]
JsonList(items)  == [kind |-> "list", value |-> items]
JsonObject(keys) == [kind |-> "object", value |-> [k \in 1..Len(keys) |-> [str |-> keys[k]]]]

\* items = json.loads(jf.read_text()); all_items.extend(items): the exception
\* raised ("none" if none) and the list afterwards.  Iterating an object yields
\* its keys; a number is not iterable.
ReadAndExtend(items_so_far, content) ==
    IF content.kind = "unreadable"
    THEN [raised |-> "OSError", all_items |-> items_so_far]
    ELSE IF content.kind = "not_json"
    THEN [raised |-> "JSONDecodeError", all_items |-> items_so_far]
    ELSE IF content.kind = "number"
    THEN [raised |-> "TypeError", all_items |-> items_so_far]
    ELSE [raised |-> "none", all_items |-> items_so_far \o content.value]

RECURSIVE CollectItems(_, _, _)
\* the "Collect all action items" loop: json.JSONDecodeError and OSError are
\* caught and the file skipped, any other exception leaves the loop
CollectItems(listing, json_files, items_so_far) ==
    IF json_files = <<>> THEN [raised |-> "none", all_items |-> items_so_far]
    ELSE LET step == ReadAndExtend(items_so_far, listing[Head(json_files)])
         IN  IF step.raised \in {"none", "JSONDecodeError", "OSError"}
             THEN CollectItems(listing, Tail(json_files), step.all_items)
             ELSE step

\* Path(path).parent of a relative path; "." when it has one component
parent(path) ==
    LET slashes == {k \in 1..Len(path) : path[k] = "/"}
    IN  IF slashes = {} THEN <<".">>
        ELSE SubSeq(path, 1, (CHOOSE k \in slashes : \A j \in slashes : j <= k) - 1)

\* out_file.parent.mkdir(parents=True, exist_ok=True); the current directory
\* exists, the default output directory is tracked by output_dir
mkdir_parents(fsv, dir) ==
    IF dir = <<".">> THEN fsv ELSE [fsv EXCEPT !.dirs = @ \cup {dir}]

\* f"weekly_todo{label}.md" with label = f"_week{week}" if week else ""
WeeklyTodoName(wk) ==
    <<"w", "e", "e", "k", "l", "y", "_", "t", "o", "d", "o">> \o (IF wk # <<>> THEN <<"_", "w", "e", "e", "k">> \o wk ELSE <<>>) \o <<".", "m", "d">>

SidecarA  == <<"a", "_", "a", "c", "t", "i", "o", "n", "s", ".", "j", "s", "o", "n">>
SidecarB  == <<"b", "_", "a", "c", "t", "i", "o", "n", "s", ".", "j", "s", "o", "n">>
NotesJson == <<"n", "o", "t", "e", "s", ".", "j", "s", "o", "n">>

ItemRead == ActionItem(<<"r", "e", "a", "d">>, <<"a", ".", "m", "p", "4">>, High)
ItemQuiz == ActionItem(<<"q", "u", "i", "z">>, <<"b", ".", "m", "p", "4">>, Normal)

\* what a *_actions.json file may hold
SidecarContents ==
    {JsonList(<<ItemRead>>), JsonList(<<ItemQuiz>>), JsonList(<<>>),
     Unreadable, NotJson, JsonNumber, JsonObject(<<<<"d", "e", "s", "c", "r", "i", "p", "t", "i", "o", "n">>>>)}

\* the directory: each sidecar absent or holding any of the contents, and
\* possibly a JSON file that is no sidecar
Listings ==
    {listing \in UNION {[present -> SidecarContents \cup {JsonList(<<ItemQuiz, ItemRead>>)}] :
                           present \in SUBSET {SidecarA, SidecarB, NotesJson}} :
        /\ \A name \in DOMAIN listing \cap {SidecarA, SidecarB} :
              listing[name] \in SidecarContents
        /\ NotesJson \in DOMAIN listing
              => listing[NotesJson] = JsonList(<<ItemQuiz, ItemRead>>)}

BatchArgs ==
    [cmd : {"batch"}, file : {<<"s", "i", "d", "e", "c", "a", "r", "s">>}, exists : BOOLEAN,
     format : {"markdown"}, raw_text : {FALSE},
     no_summary : {FALSE}, no_diarize : {FALSE}, speakers : {<<>>},
     text_exists : {TRUE}, week : {<<>>, <<"3">>},
     output : {<<>>, <<"d", "i", "g", "e", "s", "t", "s", "/", "t", "o", "d", "o", ".",
          "m", "d">>}]

\* what batch_action_items returns when the collaborator's reply parses
BatchReplies ==
    {<<>>,
     <<ActionItem(<<"r", "e", "a", "d">>, <<"a", ".", "m", "p", "4">>, High)>>,
     <<ActionItem(<<"q", "u", "i", "z">>, <<>>, Normal), ActionItem(<<"r", "e", "a", "d">>, <<>>, <<"u", "r", "g", "e", "n", "t">>)>>}

----------------------------------------------------------------------------
(* Specification Spec: one run of the transcribe, course or batch command *)

Init ==
    /\ \/ args \in TranscribeArgs \cup CourseArgs /\ dir_files = NoFiles
       \/ args \in BatchArgs /\ dir_files \in Listings
    /\ pc = "start" /\ exit_code = -1 /\ error = "none"
    /\ fs = [output_dir |-> FALSE, dirs |-> {}, tmp |-> {}, files |-> NoFiles]
    /\ calls = <<>> /\ is_temp = FALSE /\ summary = <<>> /\ diff = <<>>
    /\ all_items = <<>>
    /\ TsIdle /\ TodoIdle /\ HeapIdle /\ NamingIdle

\* raise typer.Exit(code), or an exception nothing catches (exit code 1)
Exits(code, err) == pc' = "exited" /\ exit_code' = code /\ error' = err

\* cli.transcribe, up to the call of _run
TranscribeValidate ==
    /\ pc = "start" /\ args.cmd = "transcribe"
    /\ IF ~args.exists
       THEN Exits(1, "Exit") /\ UNCHANGED fs
       ELSE IF ~(is_audio_file(args.file) \/ is_video_file(args.file))
       THEN Exits(1, "Exit") /\ UNCHANGED fs
       ELSE IF args.raw_text /\ args.format = "json"
       THEN Exits(1, "Exit") /\ UNCHANGED fs
       ELSE /\ fs' = ensure_output_dir(fs)
            /\ pc' = "prepare"
            /\ UNCHANGED <<exit_code, error>>
    /\ UNCHANGED <<batchVars, args, calls, is_temp, summary, diff,
                   tsVars, todoVars, heapVars, namingVars>>

\* cli.course, up to the call of _run
CourseValidate ==
    /\ pc = "start" /\ args.cmd = "course"
    /\ IF ~args.exists
       THEN Exits(1, "Exit") /\ UNCHANGED fs
       ELSE IF ~args.text_exists
       THEN Exits(1, "Exit") /\ UNCHANGED fs
       ELSE /\ fs' = ensure_output_dir(fs)
            /\ pc' = "prepare"
            /\ UNCHANGED <<exit_code, error>>
    /\ UNCHANGED <<batchVars, args, calls, is_temp, summary, diff,
                   tsVars, todoVars, heapVars, namingVars>>

\* _run of either command: audio_path, is_temp = prepare_audio(file), before "try"
PrepareAudio ==
    /\ pc = "prepare"
    /\ \E outcome \in ExtractOutcomes :
          LET res == prepare_audio(args.file, outcome)
          IN  /\ calls' = calls \o res.ran
              /\ fs' = [fs EXCEPT !.tmp = @ \cup res.made]
              /\ IF res.returned
                 THEN /\ is_temp' = res.is_temp
                      /\ pc' = "transcribe"
                      /\ UNCHANGED <<exit_code, error>>
                 ELSE /\ Exits(1, "RuntimeError")
                      /\ UNCHANGED is_temp
    /\ UNCHANGED <<batchVars, args, summary, diff, tsVars, todoVars, heapVars, namingVars>>

\* transcript.model_copy(update={"source_file": str(file)})
SourceFileOverride(th, ref, file) ==
    Append(th, [th[ref] EXCEPT !.source_file = file])

\* transcribe._run: provider.transcribe and the source_file override; a failure
\* leaves through "finally"
TranscribeProvider ==
    /\ pc = "transcribe" /\ args.cmd = "transcribe"
    /\ calls' = Append(calls, "deepgram")
    /\ \/ /\ fs' = RemoveTemp(fs, is_temp)
          /\ Exits(1, "ProviderError")
          /\ UNCHANGED <<heapVars, response, t>>
       \/ \E resp \in CliResponses :
             LET res == _parse_response(utt_heap, tr_heap, resp, AudioPath)
             IN  /\ response' = resp
                 /\ utt_heap' = res.utt_heap
                 /\ tr_heap' = SourceFileOverride(res.tr_heap, res.ref, args.file)
                 /\ t' = res.ref + 1
                 /\ pc' = "naming"
                 /\ UNCHANGED <<fs, exit_code, error>>
    /\ UNCHANGED <<batchVars, args, is_temp, summary, diff, r, names, via, prompts, text_out,
                   snap, tsVars, todoVars>>

\* [n.strip() for n in speakers.split(",")]
NameList(option) ==
    LET parts == Split(option, ",")
    IN  [k \in 1..Len(parts) |-> strip(parts[k])]

\* transcribe._run: "Speaker names"
TranscribeNaming ==
    /\ pc = "naming"
    /\ snap' = [utt_heap |-> utt_heap, tr_heap |-> tr_heap]
    /\ IF args.speakers # <<>>
       THEN LET res == _assign_speaker_names(utt_heap, tr_heap, t,
                                             NameList(args.speakers))
            IN  /\ utt_heap' = res.utt_heap
                /\ tr_heap' = res.tr_heap
                /\ r' = res.ref
                /\ names' = NameList(args.speakers)
                /\ via' = "assign"
                /\ UNCHANGED prompts
       ELSE IF ~args.no_diarize /\ Len(tr_heap[t].speakers) > 1
       THEN \E replies \in Replies :
               LET res == _prompt_speaker_names(utt_heap, tr_heap, t, replies)
               IN  /\ utt_heap' = res.utt_heap
                   /\ tr_heap' = res.tr_heap
                   /\ r' = res.ref
                   /\ prompts' = res.prompts
                   /\ via' = "prompt"
                   /\ UNCHANGED names
       ELSE /\ r' = t
            /\ UNCHANGED <<heapVars, names, via, prompts>>
    /\ pc' = "summarize"
    /\ UNCHANGED <<cliRest, response, t, text_out, tsVars, todoVars>>

\* transcribe._run: "Summarization"; any exception of the collaborator is caught
TranscribeSummarize ==
    /\ pc = "summarize"
    /\ IF ~args.no_summary
       THEN /\ text_out' = IF tr_heap[r].utterances # <<>>
                           THEN format_transcript_text(utt_heap, tr_heap, r)
                           ELSE tr_heap[r].raw_text
            /\ calls' = Append(calls, "summarize_transcript")
            /\ \/ \E s \in Summaries : summary' = <<s>>
               \/ summary' = <<>>
       ELSE UNCHANGED <<text_out, calls, summary>>
    /\ pc' = "write"
    /\ UNCHANGED <<batchVars, args, exit_code, error, fs, is_temp, diff, heapVars,
                   response, t, r, names, via, prompts, snap, tsVars, todoVars>>

\* transcribe._run: "Write output", then "finally".  cli.py imports
\* format_transcript_raw_text from utils, which does not define it, and passes
\* raw_text= to format_transcript_markdown, which has no such parameter; the
\* failure is charged to the step that needs the name.
TranscribeWrite ==
    /\ pc = "write"
    /\ LET name == stem(args.file)
           Done(file, content) ==
               /\ fs' = RemoveTemp(write_text(fs, file, content), is_temp)
               /\ Exits(0, "none")
           Raises(err) ==
               /\ fs' = RemoveTemp(fs, is_temp)
               /\ Exits(1, err)
       IN  IF args.format = "json"
           THEN Done(name \o <<".", "j", "s", "o", "n">>,
                     JsonFile(model_dump(utt_heap, tr_heap, r, summary)))
           ELSE IF args.format = "text"
           THEN IF args.raw_text
                THEN "format_transcript_raw_text" \notin UtilsNames
                        /\ Raises("ImportError")
                ELSE Done(name \o <<".", "t", "x", "t">>,
                          TextFile(format_transcript_text(utt_heap, tr_heap, r)))
           ELSE IF "raw_text" \in MarkdownParams
                THEN Done(name \o <<".", "m", "d">>,
                          TextFile(format_transcript_markdown(utt_heap, tr_heap, r,
                                                              summary)))
                ELSE Raises("TypeError")
    /\ UNCHANGED <<batchVars, args, calls, is_temp, summary, diff, heapVars, namingVars,
                   tsVars, todoVars>>

\* course._run: provider.transcribe inside try/finally
CourseProvider ==
    /\ pc = "transcribe" /\ args.cmd = "course"
    /\ calls' = Append(calls, "deepgram")
    /\ fs' = RemoveTemp(fs, is_temp)
    /\ \/ /\ Exits(1, "ProviderError")
          /\ UNCHANGED <<heapVars, response, t>>
       \/ \E resp \in CliResponses :
             LET res == _parse_response(utt_heap, tr_heap, resp, AudioPath)
             IN  /\ response' = resp
                 /\ utt_heap' = res.utt_heap
                 /\ tr_heap' = res.tr_heap
                 /\ t' = res.ref
                 /\ pc' = "diff"
                 /\ UNCHANGED <<exit_code, error>>
    /\ UNCHANGED <<batchVars, args, is_temp, summary, diff, r, names, via, prompts, text_out,
                   snap, tsVars, todoVars>>

\* course._run: "Read course text", "Get transcript text", "Diff"
CourseDiffContent ==
    /\ pc = "diff"
    /\ text_out' = IF tr_heap[t].utterances # <<>>
                   THEN format_transcript_text(utt_heap, tr_heap, t)
                   ELSE tr_heap[t].raw_text
    /\ calls' = Append(calls, "diff_course_content")
    /\ \/ /\ Exits(1, "CollaboratorError")
          /\ UNCHANGED diff
       \/ /\ \E d \in CourseDiffs : diff' = <<d>>
          /\ pc' = "write_md"
          /\ UNCHANGED <<exit_code, error>>
    /\ UNCHANGED <<batchVars, args, fs, is_temp, summary, heapVars, response, t, r, names, via,
                   prompts, snap, tsVars, todoVars>>


\* the sidecar written where the diff file should be: the two writes swapped
CourseWriteDiff_sidecar_first ==
    /\ pc = "write_md"
    /\ fs' = write_text(fs, stem(args.file) \o <<"_", "a", "c", "t", "i", "o", "n", "s", ".", "j", "s", "o", "n">>,
                        JsonFile(diff[1].action_items))
    /\ pc' = "write_json"
    /\ UNCHANGED <<batchVars, args, exit_code, error, calls, is_temp, summary, diff,
                   heapVars, namingVars, tsVars, todoVars>>

\* course._run: "Write markdown"
CourseWriteDiff ==
    /\ pc = "write_md"
    /\ fs' = write_text(fs, stem(args.file) \o <<"_", "d", "i", "f", "f", ".", "m", "d">>,
                        TextFile(format_course_diff_markdown(diff[1], args.week)))
    /\ pc' = "write_json"
    /\ UNCHANGED <<batchVars, args, exit_code, error, calls, is_temp, summary, diff,
                   heapVars, namingVars, tsVars, todoVars>>

\* [{**a.model_dump(), "source": video.name} for a in diff.action_items]
ActionsData(d, video_name) ==
    [k \in 1..Len(d.action_items) |->
        [d.action_items[k] EXCEPT !.source = video_name]]

\* course._run: "Write JSON sidecar for batch command", and the return
CourseWriteActions ==
    /\ pc = "write_json"
    /\ fs' = write_text(fs, stem(args.file) \o <<"_", "a", "c", "t", "i", "o", "n", "s", ".", "j", "s", "o", "n">>,
                        JsonFile(ActionsData(diff[1], args.file)))
    /\ Exits(0, "none")
    /\ UNCHANGED <<batchVars, args, calls, is_temp, summary, diff,
                   heapVars, namingVars, tsVars, todoVars>>


\* cli.batch, up to the call of _run: the directory check, the glob, the
\* "Collect all action items" loop and the two "nothing found" exits
BatchCollect ==
    /\ pc = "start" /\ args.cmd = "batch"
    /\ IF ~args.exists
       THEN Exits(1, "Exit") /\ UNCHANGED all_items
       ELSE LET json_files == SortedPaths(glob_actions_json(dir_files))
                loop == CollectItems(dir_files, json_files, <<>>)
            IN  IF json_files = <<>>
                THEN Exits(0, "Exit") /\ UNCHANGED all_items
                ELSE /\ all_items' = loop.all_items
                     /\ IF loop.raised # "none"
                        THEN Exits(1, loop.raised)
                        ELSE IF loop.all_items = <<>>
                        THEN Exits(0, "Exit")
                        ELSE pc' = "consolidate" /\ UNCHANGED <<exit_code, error>>
    /\ UNCHANGED <<dir_files, args, fs, calls, is_temp, summary, diff,
                   tsVars, todoVars, heapVars, namingVars>>

\* batch._run: consolidated = await batch_action_items(all_items, week); a reply
\* that does not parse, or whose items ActionItem rejects, is an exception
BatchConsolidate ==
    /\ pc = "consolidate"
    /\ calls' = Append(calls, "batch_action_items")
    /\ \/ /\ Exits(1, "CollaboratorError")
          /\ UNCHANGED <<action_items, week>>
       \/ /\ \E reply \in BatchReplies : action_items' = reply
          /\ week' = args.week
          /\ pc' = "write_todo"
          /\ UNCHANGED <<exit_code, error>>
    /\ UNCHANGED <<batchVars, args, fs, is_temp, summary, diff,
                   seconds, ts, todo, heapVars, namingVars>>

\* batch._run: "Write output", and the return
BatchWrite ==
    /\ pc = "write_todo"
    /\ todo' = format_weekly_todo_markdown(action_items, week)
    /\ LET digest == TextFile(format_weekly_todo_markdown(action_items, week))
       IN  IF args.output # <<>>
           THEN fs' = write_text(mkdir_parents(fs, parent(args.output)),
                                 args.output, digest)
           ELSE fs' = write_text(ensure_output_dir(fs), WeeklyTodoName(args.week),
                                 digest)
    /\ Exits(0, "none")
    /\ UNCHANGED <<batchVars, args, calls, is_temp, summary, diff,
                   seconds, ts, action_items, week, heapVars, namingVars>>

Next ==
    \/ TranscribeValidate
    \/ CourseValidate
    \/ PrepareAudio
    \/ TranscribeProvider
    \/ TranscribeNaming
    \/ TranscribeSummarize
    \/ TranscribeWrite
    \/ CourseProvider
    \/ CourseDiffContent
    \/ CourseWriteDiff
    \/ CourseWriteActions
    \/ BatchCollect
    \/ BatchConsolidate
    \/ BatchWrite

Spec == Init /\ [][Next]_vars

----------------------------------------------------------------------------
(* C8: raw-text output of the transcribe command *)

\* the lines after the "## Transcript" heading of a markdown document, or all
\* lines of a text document
TranscriptBody(lines) ==
    LET at == {k \in 1..Len(lines) : lines[k] = <<"#", "#", " ", "T", "r", "a", "n", "s", "c", "r", "i", "p", "t">>}
    IN  IF at = {} THEN lines ELSE SubSeq(lines, Min(at) + 1, Len(lines))

NonEmptyLines(lines) ==
    LET Kept(l) == l # <<>> IN SelectSeq(lines, Kept)

OutputName ==
    stem(args.file) \o (IF args.format = "json" THEN <<".", "j", "s", "o", "n">>
                        ELSE IF args.format = "text" THEN <<".", "t", "x", "t">>
                        ELSE <<".", "m", "d">>)

\* C8 as claimed: a transcribe run with raw-text and the markdown or text format
\* that got a transcript with utterances from the provider completes, and the
\* transcript body of the file it wrote has one line per utterance holding the
\* utterance text alone, without "[timestamp]" and without a speaker prefix.
C8_RawTextOutput ==
    (/\ pc = "exited" /\ args.cmd = "transcribe"
     /\ args.raw_text /\ args.format \in {"markdown", "text"}
     /\ r # 0 /\ R.utterances # <<>>)
        => /\ exit_code = 0
           /\ OutputName \in DOMAIN fs.files
           /\ NonEmptyLines(TranscriptBody(Split(fs.files[OutputName].text, "\n")))
                 = [k \in 1..Len(R.utterances) |-> RUtt(k).text]

----------------------------------------------------------------------------
(* C9: temp directories of audio extraction *)

\* C9 as claimed: when the transcribe or course command has exited, no temp
\* directory made by extract_audio is left, whichever way the command ended.
C9_TempDirsRemoved ==
    pc = "exited" => fs.tmp = {}

\* the same, for the runs in which extract_audio returned
C9_RemovedAfterExtraction ==
    (pc = "exited" /\ error # "RuntimeError") => fs.tmp = {}

----------------------------------------------------------------------------
(* C10: input errors *)

InputError ==
    /\ args.cmd \in {"transcribe", "course"}
    /\ \/ ~args.exists
       \/ ~(is_audio_file(args.file) \/ is_video_file(args.file))
       \/ args.cmd = "transcribe" /\ args.raw_text /\ args.format = "json"
       \/ args.cmd = "course" /\ ~args.text_exists

NothingDone ==
    /\ ~fs.output_dir
    /\ fs.dirs = {}
    /\ fs.tmp = {}
    /\ DOMAIN fs.files = {}
    /\ calls = <<>>

\* C10 as claimed: a transcribe or course run whose input file is missing or has
\* an unsupported extension, or (transcribe) that combines raw-text with json,
\* does nothing but exit with code 1: no output directory, no collaborator call,
\* no file.
C10_InputErrorsExit1 ==
    InputError =>
        /\ pc \in {"start", "exited"}
        /\ pc = "exited" => exit_code = 1
        /\ NothingDone

\* the same, for the transcribe command alone
C10_TranscribeInputErrors ==
    (InputError /\ args.cmd = "transcribe") =>
        /\ pc \in {"start", "exited"}
        /\ pc = "exited" => exit_code = 1
        /\ NothingDone

----------------------------------------------------------------------------
(* C11: batch on a directory without sidecar files *)

IsSidecarName(name) == EndsWith(name, <<"_", "a", "c", "t", "i", "o", "n", "s", ".", "j", "s", "o", "n">>)

NoSidecars ==
    /\ args.cmd = "batch" /\ args.exists
    /\ \A name \in DOMAIN dir_files : ~IsSidecarName(name)

\* C11: a batch run on an existing directory that holds no file named
\* *_actions.json does nothing but exit with code 0: batch_action_items is not
\* called and neither an output file nor an output directory is created.
C11_NoSidecarsExit0 ==
    NoSidecars =>
        /\ pc \in {"start", "exited"}
        /\ pc = "exited" => exit_code = 0
        /\ NothingDone
        /\ all_items = <<>>

\* such a run has ended, in a directory that holds another JSON file
C11_Witness ==
    /\ NoSidecars /\ NotesJson \in DOMAIN dir_files
    /\ pc = "exited" /\ exit_code = 0 /\ error = "Exit"

----------------------------------------------------------------------------
(* C12: unreadable and malformed sidecar files *)

IsActionItemRecord(x) == DOMAIN x = {"description", "source", "priority"}

\* a readable file holding a JSON list of action-item records
WellFormed(content) ==
    /\ content.kind = "list"
    /\ \A k \in 1..Len(content.value) : IsActionItemRecord(content.value[k])

RECURSIVE ItemsOf(_, _)
\* the items of the well-formed files among the given ones, in their order
ItemsOf(listing, files) ==
    IF files = <<>> THEN <<>>
    ELSE (IF WellFormed(listing[Head(files)]) THEN listing[Head(files)].value ELSE <<>>)
             \o ItemsOf(listing, Tail(files))

UsableItems ==
    ItemsOf(dir_files, SortedPaths({name \in DOMAIN dir_files : IsSidecarName(name)}))

Collected == args.cmd = "batch" /\ args.exists /\ ~NoSidecars /\ pc # "start"

\* C12 as claimed: once batch has read the sidecars, whatever they hold, the
\* items collected are exactly the items of the well-formed sidecars in sorted
\* file order, and the run goes on to consolidation unless no usable item
\* remains, in which case it exits with code 0.
C12_MalformedSkipped ==
    Collected =>
        /\ all_items = UsableItems
        /\ UsableItems = <<>> => pc = "exited" /\ exit_code = 0 /\ calls = <<>>
        /\ UsableItems # <<>> => pc = "consolidate" \/ calls # <<>>

\* the same, for directories whose sidecars are unreadable, not JSON, or lists
C12_ListsAndFailures ==
    (Collected /\ \A name \in DOMAIN dir_files :
                     dir_files[name].kind \in {"list", "unreadable", "not_json"})
        => /\ all_items = UsableItems
           /\ UsableItems = <<>> => pc = "exited" /\ exit_code = 0 /\ calls = <<>>
           /\ UsableItems # <<>> => pc = "consolidate" \/ calls # <<>>

----------------------------------------------------------------------------
(* C13: failure of the summarization step *)

\* summarize_transcript was called and raised
SummaryFailed ==
    /\ args.cmd = "transcribe" /\ pc \in {"write", "exited"} /\ r # 0
    /\ "summarize_transcript" \in Range(calls) /\ summary = <<>>

\* the file holds every utterance of the named transcript, in order (its raw
\* text when it has no utterances)
HoldsTranscript(file) ==
    IF args.format = "json"
    THEN /\ file.data[1].utterances = [k \in 1..Len(R.utterances) |-> RUtt(k)]
         /\ file.data[1].raw_text = R.raw_text
    ELSE LET body == NonEmptyLines(TranscriptBody(Split(file.text, "\n")))
         IN  IF R.utterances = <<>> THEN body = <<R.raw_text>>
             ELSE /\ Len(body) = Len(R.utterances)
                  /\ \A k \in 1..Len(body) : EndsWith(body[k], RUtt(k).text)

HasSummaryBlock(file) ==
    IF args.format = "json" THEN file.data[1].summary # <<>>
    ELSE \E k \in 1..Len(Split(file.text, "\n")) :
            LET line == Split(file.text, "\n")[k]
            IN  \/ StartsWith(line, <<"#", "#", "#", " ">>)
                \/ StartsWith(line, <<"#", "#", " ">>) /\ line # <<"#", "#", " ", "T", "r", "a", "n", "s", "c", "r", "i", "p", "t">>

SummaryFailureRecovered ==
    /\ SummaryFailed /\ pc = "exited" =>
          /\ exit_code = 0 /\ error = "none"
          /\ OutputName \in DOMAIN fs.files
          /\ HoldsTranscript(fs.files[OutputName])
    /\ (args.cmd = "transcribe" /\ summary = <<>> /\ OutputName \in DOMAIN fs.files)
          => ~HasSummaryBlock(fs.files[OutputName])

\* C13 as claimed: a transcribe run whose summarization step failed still ends
\* with exit code 0 and has written the output file with the full transcript;
\* and an output file written without a summary (skipped or failed) holds no
\* summary block.
C13_SummaryFailureRecoverable == SummaryFailureRecovered

\* the same, for the formats whose renderer the write step can call
C13_JsonAndTimedText ==
    (args.cmd = "transcribe"
     /\ (args.format = "json" \/ (args.format = "text" /\ ~args.raw_text)))
        => SummaryFailureRecovered

----------------------------------------------------------------------------
(* C14: failure of the diff and batch collaborators *)

DiffName    == stem(args.file) \o <<"_", "d", "i", "f", "f", ".", "m", "d">>
ActionsName == stem(args.file) \o <<"_", "a", "c", "t", "i", "o", "n", "s", ".", "j", "s", "o", "n">>

\* diff_course_content was called and returned no CourseDiff
DiffFailed ==
    args.cmd = "course" /\ "diff_course_content" \in Range(calls) /\ diff = <<>>

\* batch_action_items was called and raised
BatchFailed ==
    args.cmd = "batch" /\ "batch_action_items" \in Range(calls)
        /\ error = "CollaboratorError"

\* C14: when diff_course_content fails the course run ends with exit code 1 and
\* has written no file, and whenever the course run has written the
\* <stem>_actions.json sidecar it has written <stem>_diff.md before; when
\* batch_action_items fails the batch run ends with exit code 1 and has written
\* no file, and a batch run writes only after batch_action_items has returned.
C14_CollaboratorFailureFatal ==
    /\ DiffFailed => pc = "exited" /\ exit_code = 1 /\ DOMAIN fs.files = {}
    /\ args.cmd = "course" =>
          /\ ActionsName \in DOMAIN fs.files => DiffName \in DOMAIN fs.files
          /\ DOMAIN fs.files # {} => diff # <<>>
    /\ BatchFailed => pc = "exited" /\ exit_code = 1 /\ DOMAIN fs.files = {}
                         /\ fs.dirs = {} /\ ~fs.output_dir
    /\ (args.cmd = "batch" /\ DOMAIN fs.files # {}) =>
          /\ "batch_action_items" \in Range(calls)
          /\ pc = "exited" /\ exit_code = 0

\* a course run in which diff_course_content failed after the transcription
C14_Witness ==
    /\ DiffFailed /\ pc = "exited" /\ error = "CollaboratorError"
    /\ "deepgram" \in Range(calls) /\ fs.output_dir

----------------------------------------------------------------------------
(* C15: the naming step of transcribe without diarization *)

\* the naming step of a transcribe run is over; r is summarized and written
NamingDone ==
    args.cmd = "transcribe" /\ pc \in {"summarize", "write", "exited"} /\ r # 0

Undiarized == args.no_diarize \/ Len(T.speakers) <= 1

\* r has the speakers and the utterance names the provider's transcript has
SameNames ==
    /\ R.speakers = T.speakers
    /\ Len(R.utterances) = Len(T.utterances)
    /\ \A k \in 1..Len(R.utterances) : RUtt(k).speaker_name = TUtt(k).speaker_name

\* C15 as claimed: in a transcribe run with --no-diarize, or whose provider
\* reported at most one speaker, no naming function is applied whatever the other
\* options are: the transcript summarized and written has the speakers and the
\* utterance speaker_name values of the provider's transcript.
C15_NamingSkipped ==
    (NamingDone /\ Undiarized) => SameNames /\ via = "none" /\ prompts = <<>>

\* the same, for runs without a --speakers list
C15_SkippedWithoutList ==
    (NamingDone /\ Undiarized /\ args.speakers = <<>>)
        => SameNames /\ r = t /\ via = "none" /\ prompts = <<>>

----------------------------------------------------------------------------
(* C16: the prompts of _prompt_speaker_names *)

Prompted == Named /\ via = "prompt"

\* the speaker indices occurring in the utterances of t
SpeakerIndices == {TUtt(k).speaker : k \in 1..Len(T.utterances)}

\* the text of the first utterance of speaker i
FirstText(i) ==
    TUtt(Min({k \in 1..Len(T.utterances) : TUtt(k).speaker = i})).text

\* the first at most 120 characters, with an ellipsis only when some are cut
ExpectedSample(text) ==
    IF Len(text) <= SampleLen THEN text
    ELSE SubSeq(text, 1, SampleLen) \o <<".", ".", ".">>

\* C16: _prompt_speaker_names, called on a transcript with at most one speaker,
\* returns the very transcript it was given, asks nothing and leaves every
\* object as it was; called on any other transcript it asks once for each
\* speaker index occurring in the utterances, in strictly ascending index order,
\* showing for index i the first at most 120 characters of the first utterance
\* of speaker i, followed by "..." exactly when that utterance is longer, and a
\* prompt answered with a bare return gives speaker i the name "Speaker {i}",
\* in speakers and on each of its utterances.
C16_PromptSpeakerNames ==
    Prompted =>
        IF Len(T.speakers) <= 1
        THEN /\ r = t /\ prompts = <<>>
             /\ utt_heap = snap.utt_heap /\ tr_heap = snap.tr_heap
        ELSE /\ Len(prompts) = Cardinality(SpeakerIndices)
             /\ {prompts[k].idx : k \in 1..Len(prompts)} = SpeakerIndices
             /\ \A j, k \in 1..Len(prompts) : j < k => prompts[j].idx < prompts[k].idx
             /\ \A k \in 1..Len(prompts) :
                   /\ prompts[k].sample = ExpectedSample(FirstText(prompts[k].idx))
                   /\ prompts[k].reply = <<>> =>
                         /\ R.speakers[k] = SpeakerLabel(prompts[k].idx)
                         /\ \A u \in 1..Len(R.utterances) :
                               RUtt(u).speaker = prompts[k].idx
                                  => RUtt(u).speaker_name = SpeakerLabel(prompts[k].idx)

\* two speakers whose first appearance is in descending index order, one of
\* them with a first utterance longer than the sample, one prompt unanswered
C16_Witness ==
    /\ Prompted /\ Len(prompts) = 2
    /\ TUtt(1).speaker > TUtt(2).speaker
    /\ \E k \in 1..2 : Len(prompts[k].sample) = SampleLen + 3
    /\ \E k \in 1..2 : Len(prompts[k].sample) < SampleLen
    /\ \E k \in 1..2 : prompts[k].reply = <<>>

\* a transcript with one speaker handed to _prompt_speaker_names
C16_NoOpReached ==
    Prompted /\ Len(T.speakers) = 1 /\ r = t

====
